---- MODULE Spec2Model ----
(***************************************************************************)
(* Model of the athlete-support application: the PostgreSQL record store   *)
(* behind DatabaseManager (src/database.py) and the Flask handlers of      *)
(* src/app.py that read and write it.                                      *)
(*                                                                         *)
(* Python values: None is the empty tuple, any other value v is <<v>>.     *)
(* A dict is a function whose DOMAIN is the set of keys present.           *)
(* SQL NULL is None.                                                       *)
(***************************************************************************)
EXTENDS Integers, Sequences, FiniteSets, TLC

VARIABLES
    players,       \* PLAYER_MASTER: set of [player_id, player_name]
    karty,         \* KARTY_DATA: set of karte rows
    nextPlayerId,  \* the SERIAL sequence behind PLAYER_MASTER.player_id
    nextKarteId,   \* the SERIAL sequence behind KARTY_DATA.karte_id
    users,         \* USER_MASTER: set of [user_id, username, password_hash, is_admin]
    nextUserId,    \* the SERIAL sequence behind USER_MASTER.user_id
    sessions,      \* the Flask session of each client (its signed cookie)
    response       \* the response of the request being served, Idle between requests

vars == <<players, karty, nextPlayerId, nextKarteId, users, nextUserId, sessions, response>>

-----------------------------------------------------------------------------
(* Bounds of the model *)

MaxPlayerId == 2
MaxKarteId == 2
MaxReports == 5
MaxUserId == 3

-----------------------------------------------------------------------------
(* Python / SQL values *)

None == <<>>
Some(v) == <<v>>

\* dict.get(key): None when the key is absent
Get(d, k) == IF k \in DOMAIN d THEN d[k] ELSE None

\* dict.get(key, default)
GetDefault(d, k, default) == IF k \in DOMAIN d THEN d[k] ELSE Some(default)

\* faulty variant: only None is falsy
Truthy_NotNone(v) == v # None

\* Python truthiness of an Optional[str]: None and '' are falsy
Truthy(v) == v # None /\ v[1] # ""

-----------------------------------------------------------------------------
(* Strings.  TLC cannot look inside a string, so the characters of every   *)
(* string the model uses are tabulated here.                               *)

StrTable ==
       (""           :> <<>>)
    @@ ("1"          :> <<"1">>)
    @@ ("2"          :> <<"2">>)
    @@ ("3"          :> <<"3">>)
    @@ ("4"          :> <<"4">>)
    @@ ("5"          :> <<"5">>)
    @@ ("6"          :> <<"6">>)
    @@ ("x"          :> <<"x">>)
    @@ ("a"          :> <<"a">>)
    @@ ("b"          :> <<"b">>)
    @@ ("ab"         :> <<"a", "b">>)
    @@ ("_"          :> <<"_">>)
    @@ ("%"          :> <<"%">>)
    @@ ("2024-01-01" :> <<"2","0","2","4","-","0","1","-","0","1">>)
    @@ ("2024-01-15" :> <<"2","0","2","4","-","0","1","-","1","5">>)
    @@ ("2024-02-01" :> <<"2","0","2","4","-","0","2","-","0","1">>)

Chars(s) == StrTable[s]

\* code points, for the store's text ordering
Ord ==
       ("%" :> 37) @@ ("-" :> 45)
    @@ ("0" :> 48) @@ ("1" :> 49) @@ ("2" :> 50) @@ ("3" :> 51) @@ ("4" :> 52)
    @@ ("5" :> 53) @@ ("6" :> 54) @@ ("7" :> 55) @@ ("8" :> 56) @@ ("9" :> 57)
    @@ ("_" :> 95) @@ ("a" :> 97) @@ ("b" :> 98) @@ ("x" :> 120)

Digits == {"0", "1", "2", "3", "4", "5", "6", "7", "8", "9"}

RECURSIVE LexLeq(_, _)
LexLeq(a, b) ==
    IF a = <<>> THEN TRUE
    ELSE IF b = <<>> THEN FALSE
    ELSE IF Ord[a[1]] < Ord[b[1]] THEN TRUE
    ELSE IF Ord[a[1]] > Ord[b[1]] THEN FALSE
    ELSE LexLeq(Tail(a), Tail(b))

\* TEXT comparison  s <= t  of the store
StrLeq(s, t) == LexLeq(Chars(s), Chars(t))

\* can the store cast the text to INTEGER?
IsIntLiteral(s) == Chars(s) # <<>> /\ \A i \in 1..Len(Chars(s)) : Chars(s)[i] \in Digits

RECURSIVE DigitsValue(_)
DigitsValue(cs) ==
    IF cs = <<>> THEN 0
    ELSE 10 * DigitsValue(SubSeq(cs, 1, Len(cs) - 1)) + (Ord[cs[Len(cs)]] - Ord["0"])

\* the INTEGER a text parameter is cast to
IntValue(s) == DigitsValue(Chars(s))

\* SQL  s LIKE p  on character sequences: % any run, _ any one character,
\* backslash escapes the next character
RECURSIVE Like(_, _)
Like(s, p) ==
    IF p = <<>> THEN s = <<>>
    ELSE IF p[1] = "%" THEN Like(s, Tail(p)) \/ (s # <<>> /\ Like(Tail(s), p))
    ELSE IF p[1] = "_" THEN s # <<>> /\ Like(Tail(s), Tail(p))
    ELSE IF p[1] = "\\" /\ Len(p) >= 2
         THEN s # <<>> /\ s[1] = p[2] /\ Like(Tail(s), Tail(Tail(p)))
    ELSE s # <<>> /\ s[1] = p[1] /\ Like(Tail(s), Tail(p))

\* column LIKE '%kw%'  (NULL LIKE anything is not true)
ColumnLike(col, kw) ==
    col # None /\ Like(Chars(col[1]), <<"%">> \o Chars(kw) \o <<"%">>)

-----------------------------------------------------------------------------
(* The vocabulary of src/app.py.  The statuses carry a Japanese gloss in   *)
(* the source ('IN (...)'), left out here; injury sites and types stand    *)
(* for the Japanese options of PULLDOWN_OPTIONS.                           *)

STATUS_IN == "IN"
STATUS_RESTRICTION == "RESTRICTION"
STATUS_OUT == "OUT"
STATUS_GTD == "GTD"

TL_NONE == "NON TIME LOSS"
TL_NEW == "NEW/RE-INJURY"
TL_LOSS == "TIME LOSS"
TL_RTP == "RETURN TO PLAY"

TIME_LOSS_OPTIONS == {TL_NONE, TL_NEW, TL_LOSS, TL_RTP}

-----------------------------------------------------------------------------
(* Writing a karte *)

\* PULLDOWN_OPTIONS.keys(): the tag fields of a karte
PULLDOWN_KEYS ==
    {"activity", "timing", "age", "status", "mechanism", "injury_type",
     "injury_site", "position", "onset_style"}

\* the keys prepare_karte_data reads with form_data.get(key)
PlainKeys ==
    {"date", "time_loss_category", "s_content", "o_content", "a_content", "p_content"}

\* the keys prepare_karte_data reads with form_data.get(key, '')
DefaultedKeys ==
    {"tr", "time_loss", "injury_name", "participation_status", "return_est",
     "progress_note"}

\* the keys prepare_karte_data turns into 1 / 0
FlagKeys == {"diagnosis_flag", "report_flag"}

\* the keys of the dict prepare_karte_data returns: the columns written
DataKeys == {"player_id"} \cup PlainKeys \cup DefaultedKeys \cup FlagKeys \cup PULLDOWN_KEYS

\* prepare_karte_data: the dict saved for a submitted form
prepare_karte_data(form) ==
    [ key \in DataKeys |->
        IF key = "player_id"
        THEN IF Truthy(Get(form, "player_id")) THEN Get(form, "player_id") ELSE None
        ELSE IF key \in PlainKeys THEN Get(form, key)
        ELSE IF key \in DefaultedKeys THEN GetDefault(form, key, "")
        ELSE IF key \in FlagKeys THEN (IF Get(form, key) = Some("on") THEN 1 ELSE 0)
        ELSE IF Get(form, key) # None THEN Get(form, key) ELSE Some("") ]

\* the keys of the dict prepare_karte_data of app_web.py returns: the
\* coach-board columns are not among them
WebDataKeys ==
    {"date", "player_id", "tr", "time_loss", "time_loss_category", "diagnosis_flag",
     "s_content", "o_content", "a_content", "p_content"} \cup PULLDOWN_KEYS

\* prepare_karte_data of app_web.py
prepare_karte_data_web(form) ==
    [ key \in WebDataKeys |->
        IF key \in {"tr", "time_loss"} THEN GetDefault(form, key, "")
        ELSE IF key = "diagnosis_flag" THEN (IF Get(form, key) = Some("on") THEN 1 ELSE 0)
        ELSE Get(form, key) ]

\* faulty variant: '' is written as it is
Sanitize_Keep(v) == v

\* one value of _sanitize_values: '' becomes None
Sanitize(v) == IF v = Some("") THEN None ELSE v

\* _sanitize_values over the dict (the integer flags are never '')
SanitizeValues(data) ==
    [ key \in DOMAIN data |->
        IF key \in FlagKeys THEN data[key] ELSE Sanitize(data[key]) ]

PlayerIds == {p.player_id : p \in players}

\* the statement cannot be parsed: player_id is no INTEGER literal
BadInteger(values) ==
    values.player_id # None /\ ~IsIntLiteral(values.player_id[1])

\* a row built from the values breaks a constraint of KARTY_DATA:
\* date TEXT NOT NULL, FOREIGN KEY (player_id) REFERENCES PLAYER_MASTER
BreaksConstraint(values) ==
    \/ values.date = None
    \/ values.player_id # None /\ IntValue(values.player_id[1]) \notin PlayerIds

\* the row of KARTY_DATA holding the values: karte_id SERIAL, player_id
\* INTEGER, date TEXT NOT NULL, every other column as given
KarteRow(id, values) ==
    [ column \in {"karte_id"} \cup DOMAIN values |->
        IF column = "karte_id" THEN id
        ELSE IF column = "player_id"
        THEN (IF values.player_id = None THEN None
              ELSE Some(IntValue(values.player_id[1])))
        ELSE IF column = "date" THEN values.date[1]
        ELSE values[column] ]

\* UPDATE KARTY_DATA SET key = %s, ... WHERE karte_id = %s: the columns
\* named by the keys of the dict are set, the others keep their values
UpdatedRow(old, values) ==
    [ column \in DOMAIN old |->
        IF column \in DOMAIN values
        THEN KarteRow(old.karte_id, values)[column]
        ELSE old[column] ]

-----------------------------------------------------------------------------
(* Reading the store *)

\* p.player_name of the LEFT JOIN with PLAYER_MASTER
PlayerName(store, pid) ==
    IF pid # None /\ \E p \in store.players : p.player_id = pid[1]
    THEN Some((CHOOSE p \in store.players : p.player_id = pid[1]).player_name)
    ELSE None

\* every list holding each row of S once: the orders in which a query
\* without ORDER BY may return its rows
Orderings(S) ==
    { f \in [1..Cardinality(S) -> S] :
        \A i, j \in 1..Cardinality(S) : i # j => f[i] # f[j] }

\* AND k.player_id = %s
PlayerClause(k, filters) ==
    Truthy(Get(filters, "player_id")) =>
        k.player_id # None /\ k.player_id[1] = IntValue(filters["player_id"][1])

\* AND k.date >= %s
StartDateClause(k, filters) ==
    Truthy(Get(filters, "start_date")) => StrLeq(filters["start_date"][1], k.date)

\* AND k.date <= %s
EndDateClause(k, filters) ==
    Truthy(Get(filters, "end_date")) => StrLeq(k.date, filters["end_date"][1])

\* faulty variant: TIME_LOSS_ONLY selects TIME LOSS alone
CategoryClause_TimeLossAlone(k, filters) ==
    Truthy(Get(filters, "time_loss_category")) =>
        IF filters["time_loss_category"][1] = "TIME_LOSS_ONLY"
        THEN k.time_loss_category = Some(TL_LOSS)
        ELSE IF filters["time_loss_category"][1] # "ALL"
        THEN k.time_loss_category = Some(filters["time_loss_category"][1])
        ELSE TRUE

\* AND (TIME LOSS or RETURN TO PLAY)  /  AND k.time_loss_category = %s
CategoryClause(k, filters) ==
    Truthy(Get(filters, "time_loss_category")) =>
        IF filters["time_loss_category"][1] = "TIME_LOSS_ONLY"
        THEN k.time_loss_category = Some(TL_LOSS) \/ k.time_loss_category = Some(TL_RTP)
        ELSE IF filters["time_loss_category"][1] # "ALL"
        THEN k.time_loss_category = Some(filters["time_loss_category"][1])
        ELSE TRUE

\* AND (s_content LIKE %s OR o_content LIKE %s OR a_content LIKE %s
\*      OR p_content LIKE %s OR tr LIKE %s)
KeywordClause(k, filters) ==
    Truthy(Get(filters, "keyword")) =>
        \/ ColumnLike(k.s_content, filters["keyword"][1])
        \/ ColumnLike(k.o_content, filters["keyword"][1])
        \/ ColumnLike(k.a_content, filters["keyword"][1])
        \/ ColumnLike(k.p_content, filters["keyword"][1])
        \/ ColumnLike(k.tr, filters["keyword"][1])

\* the WHERE clause search_karty builds for the filters, on one row
SearchWhere(k, filters) ==
    /\ PlayerClause(k, filters)
    /\ StartDateClause(k, filters)
    /\ EndDateClause(k, filters)
    /\ CategoryClause(k, filters)
    /\ KeywordClause(k, filters)

\* the statement fails in the store: k.player_id = 'x' is no INTEGER comparison
SearchFails(filters) ==
    Truthy(Get(filters, "player_id")) /\ ~IsIntLiteral(filters["player_id"][1])

\* the SELECT list of search_karty
SearchRow(store, k) ==
    [ karte_id           |-> k.karte_id,
      date               |-> k.date,
      player_name        |-> PlayerName(store, k.player_id),
      tr                 |-> k.tr,
      a_content          |-> k.a_content,
      time_loss_category |-> k.time_loss_category,
      diagnosis_flag     |-> k.diagnosis_flag,
      report_flag        |-> k.report_flag ]

\* ORDER BY k.date DESC
DateDesc(r1, r2) == ~StrLeq(r1.date, r2.date)

\* search_karty: the lists it may return.  _execute turns a failed
\* statement into the empty list.
search_karty(store, filters) ==
    IF SearchFails(filters) THEN {<<>>}
    ELSE { rows \in Orderings({SearchRow(store, k) :
                                  k \in {r \in store.karty : SearchWhere(r, filters)}}) :
               \A i, j \in DOMAIN rows : i < j => ~DateDesc(rows[j], rows[i]) }

\* faulty variant: the fetch selects the columns of the list view
get_karte_ListColumns(store, karte_id) ==
    IF \E k \in store.karty : k.karte_id = karte_id
    THEN Some(SearchRow(store, CHOOSE k \in store.karty : k.karte_id = karte_id))
    ELSE None

\* get_karte: SELECT k.*, p.player_name ... WHERE k.karte_id = %s, the row
\* as a dict, None when there is no such karte
get_karte(store, karte_id) ==
    IF \E k \in store.karty : k.karte_id = karte_id
    THEN LET k == CHOOSE r \in store.karty : r.karte_id = karte_id
         IN  Some(k @@ ("player_name" :> PlayerName(store, k.player_id)))
    ELSE None

\* the categories of the injury report
ReportCategories == {Some(TL_LOSS), Some(TL_NEW), Some(TL_RTP)}

\* get_all_time_loss_categories: one row per category of the report, in
\* any order
get_all_time_loss_categories(store) ==
    Orderings({ [time_loss_category |-> c,
                 count |-> Cardinality({k \in store.karty : k.time_loss_category = c})] :
                    c \in {k.time_loss_category : k \in store.karty} \cap ReportCategories })

\* faulty variant: no HAVING clause
HavingSite_Any(site) == TRUE

\* HAVING injury_site IS NOT NULL AND injury_site != ''
HavingSite(site) == site # None /\ site # Some("")

\* get_injury_report_data: one row per (category, site, type) of the karte
\* of the report's categories, with the number of karte, in any order
get_injury_report_data(store) ==
    LET rows == {k \in store.karty : k.time_loss_category \in ReportCategories}
        groups == { [time_loss_category |-> k.time_loss_category,
                     injury_site |-> k.injury_site,
                     injury_type |-> k.injury_type] : k \in rows }
    IN  Orderings({ [time_loss_category |-> g.time_loss_category,
                     injury_site |-> g.injury_site,
                     injury_type |-> g.injury_type,
                     count |-> Cardinality({k \in rows :
                                  /\ k.time_loss_category = g.time_loss_category
                                  /\ k.injury_site = g.injury_site
                                  /\ k.injury_type = g.injury_type})] :
                        g \in {h \in groups : HavingSite(h.injury_site)} })

\* report: site_summary after the loop over report_data, as the list of its
\* (site, count) entries in the order the dict received the sites
RECURSIVE SiteSummary(_)
SiteSummary(items) ==
    IF items = <<>> THEN <<>>
    ELSE LET before == SiteSummary(SubSeq(items, 1, Len(items) - 1))
             item == items[Len(items)]
         IN  IF \E i \in DOMAIN before : before[i].site = item.injury_site
             THEN [i \in DOMAIN before |->
                      IF before[i].site = item.injury_site
                      THEN [site |-> before[i].site, count |-> before[i].count + item.count]
                      ELSE before[i]]
             ELSE Append(before, [site |-> item.injury_site, count |-> item.count])

\* list.sort / sorted: ascending by the keys (keys[i] is the key of
\* seq[i]); elements of equal key keep their order
StableSort(seq, keys) ==
    LET Rank(i) == 1 + Cardinality({ j \in DOMAIN seq :
                        \/ keys[j] < keys[i]
                        \/ keys[j] = keys[i] /\ j < i })
    IN  [p \in DOMAIN seq |-> seq[CHOOSE i \in DOMAIN seq : Rank(i) = p]]

\* sorted(site_summary.items(), key=lambda x: x[1], reverse=True): descending
\* by count, entries of equal count in their order
SortedSites(summary) ==
    StableSort(summary, [i \in DOMAIN summary |-> 0 - summary[i].count])

\* faulty variant: each row is put at the head of its list
RECURSIVE GroupedData_Prepend(_)
GroupedData_Prepend(items) ==
    IF items = <<>> THEN <<>>
    ELSE LET before == GroupedData_Prepend(SubSeq(items, 1, Len(items) - 1))
             item == items[Len(items)]
             cat == item.time_loss_category
         IN  IF cat \in DOMAIN before
             THEN [before EXCEPT ![cat] = <<item>> \o @]
             ELSE before @@ (cat :> <<item>>)

\* report: grouped_data after the loop over report_data
RECURSIVE GroupedData(_)
GroupedData(items) ==
    IF items = <<>> THEN <<>>
    ELSE LET before == GroupedData(SubSeq(items, 1, Len(items) - 1))
             item == items[Len(items)]
             cat == item.time_loss_category
         IN  IF cat \in DOMAIN before
             THEN [before EXCEPT ![cat] = Append(@, item)]
             ELSE before @@ (cat :> <<item>>)

\* faulty variant: ORDER BY k.date DESC, k.karte_id ASC
LatestFirst_LowestId(k1, k2) ==
    \/ ~StrLeq(k1.date, k2.date)
    \/ k1.date = k2.date /\ k1.karte_id < k2.karte_id

\* ORDER BY k.date DESC, k.karte_id DESC: k1 comes strictly before k2
LatestFirst(k1, k2) ==
    \/ ~StrLeq(k1.date, k2.date)
    \/ k1.date = k2.date /\ k1.karte_id > k2.karte_id

\* ORDER BY k.player_id (ascending, NULL last): k1 comes strictly before k2
PlayerIdAsc(k1, k2) ==
    /\ k1.player_id # None
    /\ k2.player_id = None \/ k1.player_id[1] < k2.player_id[1]

\* the SELECT list of get_coach_reports
CoachRow(store, k) ==
    [ karte_id             |-> k.karte_id,
      date                 |-> k.date,
      player_name          |-> PlayerName(store, k.player_id),
      injury_name          |-> k.injury_name,
      participation_status |-> k.participation_status,
      return_est           |-> k.return_est,
      progress_note        |-> k.progress_note,
      time_loss_category   |-> k.time_loss_category ]

\* get_coach_reports: DISTINCT ON (k.player_id) keeps, of the karte with
\* report_flag = 1, the first of each player_id in the ORDER BY
get_coach_reports(store) ==
    LET reportable == {k \in store.karty : k.report_flag = 1}
        firsts == { k \in reportable :
                      \A o \in reportable : o.player_id = k.player_id => ~LatestFirst(o, k) }
        ordered == [p \in 1..Cardinality(firsts) |->
                       CHOOSE k \in firsts :
                           Cardinality({o \in firsts : PlayerIdAsc(o, k)}) = p - 1]
    IN  [i \in DOMAIN ordered |-> CoachRow(store, ordered[i])]

\* priority_map.get(status, 99)
Priority(status) ==
    IF status = Some(STATUS_OUT) THEN 1
    ELSE IF status = Some(STATUS_GTD) THEN 2
    ELSE IF status = Some(STATUS_RESTRICTION) THEN 3
    ELSE IF status = Some(STATUS_IN) THEN 4
    ELSE 99

\* faulty variant: a sort that reverses rows of equal priority
CoachSort_Unstable(reports) ==
    LET Rank(i) == 1 + Cardinality({ j \in DOMAIN reports :
                        \/ Priority(reports[j].participation_status)
                               < Priority(reports[i].participation_status)
                        \/ /\ Priority(reports[j].participation_status)
                                = Priority(reports[i].participation_status)
                           /\ j > i })
    IN  [p \in DOMAIN reports |-> reports[CHOOSE i \in DOMAIN reports : Rank(i) = p]]

\* reports.sort(key=lambda x: priority_map.get(x.get('participation_status'), 99))
CoachSort(reports) ==
    StableSort(reports, [i \in DOMAIN reports |-> Priority(reports[i].participation_status)])

\* faulty variant: AND date < %s
get_latest_injury_date_Before(store, player_id, current_date) ==
    LET rows == { k \in store.karty :
                    /\ k.player_id = Some(player_id)
                    /\ k.time_loss_category = Some(TL_NEW)
                    /\ StrLeq(k.date, current_date) /\ k.date # current_date }
    IN  IF rows = {} THEN None
        ELSE Some((CHOOSE k \in rows : \A o \in rows : StrLeq(o.date, k.date)).date)

\* get_latest_injury_date: the date of the first row of
\* ORDER BY date DESC LIMIT 1, None when there is no row
get_latest_injury_date(store, player_id, current_date) ==
    LET rows == { k \in store.karty :
                    /\ k.player_id = Some(player_id)
                    /\ k.time_loss_category = Some(TL_NEW)
                    /\ StrLeq(k.date, current_date) }
    IN  IF rows = {} THEN None
        ELSE Some((CHOOSE k \in rows : \A o \in rows : StrLeq(o.date, k.date)).date)

\* datetime.strptime(s, '%Y-%m-%d') as a day number (the Julian day)
DayNumber(s) ==
    LET y == DigitsValue(SubSeq(Chars(s), 1, 4))
        m == DigitsValue(SubSeq(Chars(s), 6, 7))
        d == DigitsValue(SubSeq(Chars(s), 9, 10))
        a == (14 - m) \div 12
        yy == y + 4800 - a
        mm == m + 12 * a - 3
    IN  d + ((153 * mm + 2) \div 5) + 365 * yy + (yy \div 4) - (yy \div 100)
          + (yy \div 400) - 32045

\* faulty variant: the week is counted from 0
ElapsedDays_WeekFromZero(injury_date, displayed_date) ==
    IF injury_date = None
    THEN [dash |-> TRUE, diff |-> 0, week |-> 0, day |-> 0]
    ELSE LET diff == DayNumber(displayed_date) - DayNumber(injury_date[1])
         IN  [dash |-> FALSE, diff |-> diff, week |-> diff \div 7, day |-> diff % 7]

\* the elapsed-days annotation of a displayed row: "-" without an injury
\* date, else "Day {diff} (W{diff//7 + 1}D{diff%7})", kept as its numbers
ElapsedDays(injury_date, displayed_date) ==
    IF injury_date = None
    THEN [dash |-> TRUE, diff |-> 0, week |-> 0, day |-> 0]
    ELSE LET diff == DayNumber(displayed_date) - DayNumber(injury_date[1])
         IN  [dash |-> FALSE, diff |-> diff, week |-> (diff \div 7) + 1, day |-> diff % 7]

-----------------------------------------------------------------------------
\* no request is being served
Idle == [op |-> "idle"]

Store == [players |-> players, karty |-> karty]

\* the clients (browsers) that send requests, each with its own session
Clients == {"c1", "c2"}

\* generate_password_hash, kept apart from the password it is made of
generate_password_hash(password) == <<"hash", password>>

\* check_password_hash: the hash is one of this password
check_password_hash(pwhash, password) == pwhash = generate_password_hash(password)

\* COACH_SHARED_PASSWORD, with COACH_PASSWORD not set in the environment
COACH_SHARED_PASSWORD == "pirates"

\* the user _initialize_db registers: admin / password, is_admin = 1
InitialAdmin ==
    [ user_id |-> 1, username |-> "admin",
      password_hash |-> generate_password_hash("password"), is_admin |-> 1 ]

\* a session without login and without coach authentication
NewSession == [user_id |-> None, coach_authenticated |-> FALSE]

\* load_user on the user id of the session of client c: the User of the
\* row of USER_MASTER, or None (no id in the session, or no such row)
current_user(c) ==
    IF sessions[c].user_id = None THEN None
    ELSE IF \E u \in users : u.user_id = sessions[c].user_id[1]
    THEN Some(CHOOSE u \in users : u.user_id = sessions[c].user_id[1])
    ELSE None

\* current_user.is_authenticated
is_authenticated(c) == current_user(c) # None

\* the tables after _initialize_db (with the columns migrate_schema adds),
\* no client logged in
Init ==
    /\ players = {}
    /\ karty = {}
    /\ nextPlayerId = 1
    /\ nextKarteId = 1
    /\ users = {InitialAdmin}
    /\ nextUserId = 2
    /\ sessions = [c \in Clients |-> NewSession]
    /\ response = Idle

-----------------------------------------------------------------------------
(* Handlers that write.  The handlers of the karte and of the players are *)
(* behind login_required: they are modelled as the requests of a logged-in  *)
(* trainer (the request of any other client is sent to login and changes    *)
(* nothing).  The handlers whose claims are about access (coach_view,       *)
(* user_master) take the client and make the check themselves.              *)

\* faulty variant: PLAYER_MASTER without the UNIQUE constraint
AddPlayer_NoUnique(name) ==
    /\ response = Idle
    /\ nextPlayerId <= MaxPlayerId
    /\ nextPlayerId' = nextPlayerId + 1
    /\ players' = players \cup {[player_id |-> nextPlayerId, player_name |-> name]}
    /\ response' = [op |-> "add_player", player_name |-> name, ret |-> TRUE]
    /\ UNCHANGED <<karty, nextKarteId, users, nextUserId, sessions>>

\* player_master (POST) -> add_player: a taken name is a UniqueViolation,
\* which still consumes a value of the SERIAL sequence
AddPlayer(name) ==
    /\ response = Idle
    /\ nextPlayerId <= MaxPlayerId
    /\ nextPlayerId' = nextPlayerId + 1
    /\ IF \E p \in players : p.player_name = name
       THEN /\ players' = players
            /\ response' = [op |-> "add_player", player_name |-> name, ret |-> FALSE]
       ELSE /\ players' = players \cup {[player_id |-> nextPlayerId, player_name |-> name]}
            /\ response' = [op |-> "add_player", player_name |-> name, ret |-> TRUE]
    /\ UNCHANGED <<karty, nextKarteId, users, nextUserId, sessions>>

\* faulty variant: only the row of PLAYER_MASTER is deleted
DeletePlayer_PlayerOnly(pid) ==
    /\ response = Idle
    /\ karty' = karty
    /\ players' = {p \in players : p.player_id # pid}
    /\ response' = [op |-> "delete_player", player_id |-> pid,
                     rowcount |-> Cardinality({k \in karty : k.player_id = Some(pid)})]
    /\ UNCHANGED <<nextPlayerId, nextKarteId, users, nextUserId, sessions>>

\* edit_player (action = delete) -> delete_player: both DELETEs, one commit;
\* rowcount is the number of karte rows the first DELETE removed
DeletePlayer(pid) ==
    /\ response = Idle
    /\ karty' = {k \in karty : k.player_id # Some(pid)}
    /\ players' = {p \in players : p.player_id # pid}
    /\ response' = [op |-> "delete_player", player_id |-> pid,
                     rowcount |-> Cardinality({k \in karty : k.player_id = Some(pid)})]
    /\ UNCHANGED <<nextPlayerId, nextKarteId, users, nextUserId, sessions>>

\* delete_player statement by statement.  The request in flight holds the
\* tables as its transaction sees them (tx_players, tx_karty); the store
\* changes at the commit.  DeletePlayer above is the run of the four steps
\* without failure.

\* with self._connect() as conn: the transaction begins
DeletePlayerConnect(pid) ==
    /\ response = Idle
    /\ response' = [op |-> "delete_player_tx", pc |-> "connected", player_id |-> pid,
                     tx_players |-> players, tx_karty |-> karty]
    /\ UNCHANGED <<players, karty, nextPlayerId, nextKarteId, users, nextUserId, sessions>>

\* faulty variant: the first DELETE is committed on its own
DeletePlayerKarty_Autocommit ==
    /\ response.op = "delete_player_tx" /\ response.pc = "connected"
    /\ karty' = {k \in karty : k.player_id # Some(response.player_id)}
    /\ response' = [response EXCEPT !.pc = "karte_deleted", !.tx_karty = karty']
    /\ UNCHANGED <<players, nextPlayerId, nextKarteId, users, nextUserId, sessions>>

\* c.execute("DELETE FROM KARTY_DATA WHERE player_id = %s")
DeletePlayerKarty ==
    /\ response.op = "delete_player_tx" /\ response.pc = "connected"
    /\ response' = [response EXCEPT
                       !.pc = "karte_deleted",
                       !.tx_karty = {k \in @ : k.player_id # Some(response.player_id)}]
    /\ UNCHANGED <<players, karty, nextPlayerId, nextKarteId, users, nextUserId, sessions>>

\* c.execute("DELETE FROM PLAYER_MASTER WHERE player_id = %s")
DeletePlayerMaster ==
    /\ response.op = "delete_player_tx" /\ response.pc = "karte_deleted"
    /\ response' = [response EXCEPT
                       !.pc = "player_deleted",
                       !.tx_players = {p \in @ : p.player_id # response.player_id}]
    /\ UNCHANGED <<players, karty, nextPlayerId, nextKarteId, users, nextUserId, sessions>>

\* conn.commit(): both deletions reach the store
DeletePlayerCommit ==
    /\ response.op = "delete_player_tx" /\ response.pc = "player_deleted"
    /\ players' = response.tx_players
    /\ karty' = response.tx_karty
    /\ response' = [op |-> "delete_player", player_id |-> response.player_id,
                     rowcount |-> Cardinality(karty) - Cardinality(response.tx_karty)]
    /\ UNCHANGED <<nextPlayerId, nextKarteId, users, nextUserId, sessions>>

\* a statement or the commit raises (the connection is lost, say): the
\* with block of the connection rolls back and the error leaves
\* delete_player and edit_player
DeletePlayerFailure ==
    /\ response.op = "delete_player_tx"
    /\ response' = [op |-> "delete_player_failed", player_id |-> response.player_id,
                     at |-> response.pc]
    /\ UNCHANGED <<players, karty, nextPlayerId, nextKarteId, users, nextUserId, sessions>>

\* create_karte (POST) -> prepare_karte_data, DatabaseManager.create_karte
CreateKarte(form) ==
    LET data == prepare_karte_data(form)
        values == SanitizeValues(data)
    IN  /\ response = Idle
        /\ IF data.player_id = None
           THEN \* "select a player": the form is shown again, nothing is stored
                /\ response' = [op |-> "create_karte", form |-> form,
                                 outcome |-> "rejected"]
                /\ UNCHANGED <<players, karty, nextPlayerId, nextKarteId, users, nextUserId, sessions>>
           ELSE IF BadInteger(values)
           THEN /\ response' = [op |-> "create_karte", form |-> form,
                                 outcome |-> "raised"]
                /\ UNCHANGED <<players, karty, nextPlayerId, nextKarteId, users, nextUserId, sessions>>
           ELSE /\ nextKarteId <= MaxKarteId
                /\ nextKarteId' = nextKarteId + 1
                /\ IF BreaksConstraint(values)
                   THEN /\ karty' = karty
                        /\ response' = [op |-> "create_karte", form |-> form,
                                         outcome |-> "raised"]
                   ELSE /\ karty' = karty \cup {KarteRow(nextKarteId, values)}
                        /\ response' = [op |-> "create_karte", form |-> form,
                                         outcome |-> "ok", karte_id |-> nextKarteId]
                /\ UNCHANGED <<players, nextPlayerId, users, nextUserId, sessions>>

\* edit_karte (POST) -> get_karte (404 when absent), prepare_karte_data,
\* DatabaseManager.update_karte
UpdateKarte(id, form) ==
    LET values == SanitizeValues(prepare_karte_data(form))
        karte == get_karte(Store, id)
    IN  /\ response = Idle
        /\ karte # None
        /\ IF BadInteger(values) \/ BreaksConstraint(values)
           THEN /\ karty' = karty
                /\ response' = [op |-> "update_karte", karte_id |-> id, form |-> form,
                                 karte |-> karte[1], outcome |-> "raised"]
           ELSE /\ karty' = {k \in karty : k.karte_id # id}
                               \cup {UpdatedRow(CHOOSE k \in karty : k.karte_id = id, values)}
                /\ response' = [op |-> "update_karte", karte_id |-> id, form |-> form,
                                 karte |-> karte[1], outcome |-> "ok"]
        /\ UNCHANGED <<players, nextPlayerId, nextKarteId, users, nextUserId, sessions>>

\* edit_karte (POST) of app_web.py, the older front end of the same store:
\* its prepare_karte_data, then DatabaseManager.update_karte
UpdateKarteWeb(id, form) ==
    LET values == SanitizeValues(prepare_karte_data_web(form))
        karte == get_karte(Store, id)
    IN  /\ response = Idle
        /\ karte # None
        /\ IF BadInteger(values) \/ BreaksConstraint(values)
           THEN /\ karty' = karty
                /\ response' = [op |-> "update_karte_web", karte_id |-> id, form |-> form,
                                 karte |-> karte[1], outcome |-> "raised"]
           ELSE /\ karty' = {k \in karty : k.karte_id # id}
                               \cup {UpdatedRow(CHOOSE k \in karty : k.karte_id = id, values)}
                /\ response' = [op |-> "update_karte_web", karte_id |-> id, form |-> form,
                                 karte |-> karte[1], outcome |-> "ok"]
        /\ UNCHANGED <<players, nextPlayerId, nextKarteId, users, nextUserId, sessions>>

\* delete_karte (POST) -> DatabaseManager.delete_karte
DeleteKarte(id) ==
    /\ response = Idle
    /\ karty' = {k \in karty : k.karte_id # id}
    /\ response' = [op |-> "delete_karte", karte_id |-> id]
    /\ UNCHANGED <<players, nextPlayerId, nextKarteId, users, nextUserId, sessions>>

-----------------------------------------------------------------------------
(* Sessions and users *)

\* a handler sends the client elsewhere
Redirect(c, from, to) == [op |-> "redirect", client |-> c, from |-> from, to |-> to]

\* login (POST): the row of the username, check_password_hash, login_user
Login(c, username, password) ==
    /\ response = Idle
    /\ IF is_authenticated(c)
       THEN /\ sessions' = sessions
            /\ response' = Redirect(c, "login", "index")
       ELSE IF \E u \in users : /\ u.username = username
                                /\ check_password_hash(u.password_hash, password)
       THEN /\ sessions' = [sessions EXCEPT ![c].user_id =
                               Some((CHOOSE u \in users : u.username = username).user_id)]
            /\ response' = [op |-> "login", client |-> c, username |-> username,
                             ret |-> TRUE]
       ELSE /\ sessions' = sessions
            /\ response' = [op |-> "login", client |-> c, username |-> username,
                             ret |-> FALSE]
    /\ UNCHANGED <<players, karty, nextPlayerId, nextKarteId, users, nextUserId>>

\* faulty variant: the coach authentication outlives the logout
Logout_KeepCoach(c) ==
    /\ response = Idle
    /\ sessions' = [sessions EXCEPT ![c].user_id = None]
    /\ response' = [op |-> "logout", client |-> c, session |-> sessions[c]]
    /\ UNCHANGED <<players, karty, nextPlayerId, nextKarteId, users, nextUserId>>

\* logout: logout_user(), session.pop('coach_authenticated'); the response
\* notes the session the request came with
Logout(c) ==
    /\ response = Idle
    /\ sessions' = [sessions EXCEPT ![c] = NewSession]
    /\ response' = [op |-> "logout", client |-> c, session |-> sessions[c]]
    /\ UNCHANGED <<players, karty, nextPlayerId, nextKarteId, users, nextUserId>>

\* coach_login: password is the text of the POST, None for a GET
CoachLogin(c, password) ==
    /\ response = Idle
    /\ IF sessions[c].coach_authenticated
       THEN /\ sessions' = sessions
            /\ response' = Redirect(c, "coach_login", "coach_view")
       ELSE IF password = Some(COACH_SHARED_PASSWORD)
       THEN /\ sessions' = [sessions EXCEPT ![c].coach_authenticated = TRUE]
            /\ response' = [op |-> "coach_login", client |-> c, password |-> password,
                             ret |-> TRUE]
       ELSE /\ sessions' = sessions
            /\ response' = [op |-> "coach_login", client |-> c, password |-> password,
                             ret |-> FALSE]
    /\ UNCHANGED <<players, karty, nextPlayerId, nextKarteId, users, nextUserId>>

\* user_master (POST, action = add) -> add_user: login_required, the admin
\* check, then the INSERT; a taken username is a UniqueViolation, which
\* still consumes a value of the SERIAL sequence
UserMasterAdd(c, un, pw, ad) ==
    /\ response = Idle
    /\ IF ~is_authenticated(c)
       THEN /\ response' = Redirect(c, "user_master", "login")
            /\ UNCHANGED <<users, nextUserId>>
       ELSE IF current_user(c)[1].is_admin = 0
       THEN /\ response' = Redirect(c, "user_master", "index")
            /\ UNCHANGED <<users, nextUserId>>
       ELSE /\ nextUserId <= MaxUserId
            /\ nextUserId' = nextUserId + 1
            /\ IF \E u \in users : u.username = un
               THEN /\ users' = users
                    /\ response' = [op |-> "add_user", client |-> c, username |-> un,
                                     ret |-> FALSE]
               ELSE /\ users' = users \cup
                                   {[ user_id |-> nextUserId, username |-> un,
                                      password_hash |-> generate_password_hash(pw),
                                      is_admin |-> IF Truthy(ad) THEN 1 ELSE 0 ]}
                    /\ response' = [op |-> "add_user", client |-> c, username |-> un,
                                     ret |-> TRUE]
    /\ UNCHANGED <<players, karty, nextPlayerId, nextKarteId, sessions>>

\* faulty variant: no comparison with the id of the current user
UserMasterDelete_AllowSelf(c, uid) ==
    /\ response = Idle
    /\ IF ~is_authenticated(c)
       THEN /\ response' = Redirect(c, "user_master", "login")
            /\ users' = users
       ELSE IF current_user(c)[1].is_admin = 0
       THEN /\ response' = Redirect(c, "user_master", "index")
            /\ users' = users
       ELSE /\ users' = {u \in users : u.user_id # IntValue(uid)}
            /\ response' = [op |-> "delete_user", client |-> c, user_id |-> uid,
                             ret |-> TRUE]
    /\ UNCHANGED <<players, karty, nextPlayerId, nextKarteId, nextUserId, sessions>>

\* user_master (POST, action = delete) -> delete_user: login_required, the
\* admin check, the refusal of the own id (uid is the text of the form),
\* then the DELETE
UserMasterDelete(c, uid) ==
    /\ response = Idle
    /\ IF ~is_authenticated(c)
       THEN /\ response' = Redirect(c, "user_master", "login")
            /\ users' = users
       ELSE IF current_user(c)[1].is_admin = 0
       THEN /\ response' = Redirect(c, "user_master", "index")
            /\ users' = users
       ELSE IF IntValue(uid) = current_user(c)[1].user_id
       THEN /\ users' = users
            /\ response' = [op |-> "delete_user", client |-> c, user_id |-> uid,
                             ret |-> FALSE]
       ELSE /\ users' = {u \in users : u.user_id # IntValue(uid)}
            /\ response' = [op |-> "delete_user", client |-> c, user_id |-> uid,
                             ret |-> TRUE]
    /\ UNCHANGED <<players, karty, nextPlayerId, nextKarteId, nextUserId, sessions>>

-----------------------------------------------------------------------------
(* Handlers that read *)

\* index -> search_karty
SearchKarty(filters) ==
    /\ response = Idle
    /\ \E rows \in search_karty(Store, filters) :
           response' = [op |-> "search_karty", filters |-> filters, ret |-> rows]
    /\ UNCHANGED <<players, karty, nextPlayerId, nextKarteId, users, nextUserId, sessions>>

\* report -> get_all_time_loss_categories, get_injury_report_data
Report ==
    /\ response = Idle
    /\ \E tl_counts \in get_all_time_loss_categories(Store),
          report_data \in get_injury_report_data(Store) :
           LET sorted_sites == SortedSites(SiteSummary(report_data))
           IN  response' =
                   [ op           |-> "report",
                     tl_counts    |-> tl_counts,
                     report_data  |-> report_data,
                     chart_labels |-> [i \in DOMAIN sorted_sites |-> sorted_sites[i].site],
                     chart_values |-> [i \in DOMAIN sorted_sites |-> sorted_sites[i].count],
                     grouped_data |-> GroupedData(report_data) ]
    /\ UNCHANGED <<players, karty, nextPlayerId, nextKarteId, users, nextUserId, sessions>>

\* faulty variant: the board is shown to every client
CoachView_NoCheck(c) ==
    /\ response = Idle
    /\ response' = [op |-> "coach_view", client |-> c,
                     reports |-> CoachSort(get_coach_reports(Store))]
    /\ UNCHANGED <<players, karty, nextPlayerId, nextKarteId, users, nextUserId, sessions>>

\* coach_view: a client that is neither logged in nor coach-authenticated is
\* sent to coach_login; else get_coach_reports, then the sort by
\* participation status
CoachView(c) ==
    /\ response = Idle
    /\ IF ~is_authenticated(c) /\ ~sessions[c].coach_authenticated
       THEN response' = Redirect(c, "coach_view", "coach_login")
       ELSE response' = [op |-> "coach_view", client |-> c,
                         reports |-> CoachSort(get_coach_reports(Store))]
    /\ UNCHANGED <<players, karty, nextPlayerId, nextKarteId, users, nextUserId, sessions>>

\* edit_karte (GET) -> get_karte: the karte, or 404 when there is none
GetKarte(id) ==
    /\ response = Idle
    /\ response' = [op |-> "get_karte", karte_id |-> id, ret |-> get_karte(Store, id)]
    /\ UNCHANGED <<players, karty, nextPlayerId, nextKarteId, users, nextUserId, sessions>>

\* DatabaseManager.get_latest_injury_date
GetLatestInjuryDate(player_id, current_date) ==
    /\ response = Idle
    /\ response' = [ op |-> "get_latest_injury_date",
                     player_id |-> player_id, current_date |-> current_date,
                     ret |-> get_latest_injury_date(Store, player_id, current_date) ]
    /\ UNCHANGED <<players, karty, nextPlayerId, nextKarteId, users, nextUserId, sessions>>

\* the annotation of a displayed row of a player: the lookup, then the text
ElapsedAnnotation(player_id, displayed_date) ==
    /\ response = Idle
    /\ response' = [ op |-> "elapsed_days",
                     player_id |-> player_id, current_date |-> displayed_date,
                     ret |-> ElapsedDays(get_latest_injury_date(Store, player_id, displayed_date),
                                         displayed_date) ]
    /\ UNCHANGED <<players, karty, nextPlayerId, nextKarteId, users, nextUserId, sessions>>

\* the response goes out; requests are served one at a time
Respond ==
    /\ response # Idle
    /\ response' = Idle
    /\ UNCHANGED <<players, karty, nextPlayerId, nextKarteId, users, nextUserId, sessions>>

-----------------------------------------------------------------------------
(* Inputs *)

PlayerNames == {"A", "B"}

\* a player id as the text of a form or filter
IdText == <<"1", "2", "3", "4", "5", "6">>

D1 == "2024-01-01"
D2 == "2024-01-15"
D3 == "2024-02-01"

\* a dict without some of its keys
Without(d, keys) == [k \in DOMAIN d \ keys |-> d[k]]

\* the karte form with every input left empty and no box ticked (a box
\* that is not ticked is not submitted); the date input holds a date
EmptyForm ==
    [ key \in DataKeys \ FlagKeys |->
        IF key = "date" THEN Some(D1)
        ELSE IF key = "time_loss_category" THEN Some(TL_NONE)
        ELSE Some("") ]

\* A form like the one the main filters select (player 1, dated D2,
\* TIME LOSS, "ab" in the assessment), and the forms one input away from it
MatchingForm ==
    [EmptyForm EXCEPT !.player_id = Some("1"), !.date = Some(D2),
                      !.time_loss_category = Some(TL_LOSS), !.a_content = Some("ab")]

SearchForms ==
    { MatchingForm,
      [MatchingForm EXCEPT !.player_id = Some("2")],
      [MatchingForm EXCEPT !.date = Some(D1)],
      [MatchingForm EXCEPT !.date = Some(D3)],
      [MatchingForm EXCEPT !.time_loss_category = Some(TL_NEW)],
      [MatchingForm EXCEPT !.a_content = Some("")] }

\* forms of every category, and with the text in each field in turn
MatchForms ==
    { MatchingForm,
      [MatchingForm EXCEPT !.time_loss_category = Some(TL_NEW)],
      [MatchingForm EXCEPT !.time_loss_category = Some(TL_RTP)],
      [MatchingForm EXCEPT !.time_loss_category = Some(TL_NONE)],
      [MatchingForm EXCEPT !.time_loss_category = Some("")],
      [MatchingForm EXCEPT !.a_content = Some("")],
      [MatchingForm EXCEPT !.a_content = Some("b")],
      [MatchingForm EXCEPT !.a_content = Some(""), !.s_content = Some("ab")],
      [MatchingForm EXCEPT !.a_content = Some(""), !.o_content = Some("ab")],
      [MatchingForm EXCEPT !.a_content = Some(""), !.p_content = Some("ab")],
      [MatchingForm EXCEPT !.a_content = Some(""), !.tr = Some("ab")] }

\* forms of the injury report: category, site and type vary
ReportForms ==
    { [MatchingForm EXCEPT !.time_loss_category = Some(c),
                           !.injury_site = Some(st[1]), !.injury_type = Some(st[2])] :
        c \in {TL_LOSS, TL_NEW, TL_NONE},
        st \in { <<"knee", "fracture">>, <<"knee", "">>, <<"shoulder", "fracture">>, <<"", "fracture">> } }

\* a ticked report_flag box
Reportable(form) == form @@ ("report_flag" :> Some("on"))

\* forms of the coach board: player, date (with it the status) and
\* report_flag vary, and one form names no player
CoachBaseForms ==
    { [MatchingForm EXCEPT !.player_id = Some(p), !.date = Some(d),
                           !.participation_status =
                               Some(IF d = D1 THEN STATUS_IN ELSE STATUS_OUT)] :
        p \in {"1", "2"}, d \in {D1, D2} }
    \cup { [MatchingForm EXCEPT !.player_id = Some("")] }

CoachForms == CoachBaseForms \cup {Reportable(form) : form \in CoachBaseForms}

\* forms of the injury-date lookup: player, date and category vary
InjuryForms ==
    { [MatchingForm EXCEPT !.player_id = Some(p), !.date = Some(d),
                           !.time_loss_category = Some(c)] :
        p \in {"1", "2"}, d \in {D1, D2, D3}, c \in {TL_NEW, TL_LOSS} }

FilterKeys == {"player_id", "start_date", "end_date", "keyword", "time_loss_category"}

NoFilters == [k \in FilterKeys |-> None]

\* index reads every key from the query string: None when it is not there
MainFilters ==
    [ player_id |-> Some("1"), start_date |-> Some(D2), end_date |-> Some(D2),
      keyword |-> Some("a"), time_loss_category |-> Some(TL_LOSS) ]

\* each key with its main value or None
MainFilterSets ==
    { [k \in FilterKeys |-> IF k \in ks THEN MainFilters[k] ELSE None] :
        ks \in SUBSET FilterKeys }

\* one key set to v, the others all None or all main
Variants(k, v) == { [NoFilters EXCEPT ![k] = v], [MainFilters EXCEPT ![k] = v] }

SearchFilterSets ==
    MainFilterSets
    \cup UNION { Variants(k, Some("")) : k \in FilterKeys }
    \cup Variants("time_loss_category", Some("ALL"))
    \cup Variants("player_id", Some("x"))
    \cup Variants("player_id", Some("2"))
    \cup Variants("start_date", Some(D1))
    \cup Variants("end_date", Some(D3))
    \cup Variants("keyword", Some("_"))

MatchFilterSets ==
    { NoFilters, MainFilters }
    \cup Variants("time_loss_category", Some("TIME_LOSS_ONLY"))
    \cup Variants("time_loss_category", Some(TL_NEW))
    \cup Variants("keyword", Some("b"))
    \cup Variants("keyword", Some("ab"))
    \cup Variants("keyword", Some("_"))
    \cup Variants("keyword", Some("%"))

\* the handlers of one specification: the forms and filter sets are its inputs
StoreNext(Forms) ==
    \/ \E name \in PlayerNames : AddPlayer(name)
    \/ \E pid \in 1..MaxPlayerId : DeletePlayer(pid)
    \/ \E form \in Forms : CreateKarte(form)
    \/ \E id \in 1..MaxKarteId, form \in Forms : UpdateKarte(id, form)
    \/ \E id \in 1..MaxKarteId : DeleteKarte(id)

SpecSearchNext ==
    \/ StoreNext(SearchForms)
    \/ \E filters \in SearchFilterSets : SearchKarty(filters)
    \/ Respond

SpecSearch == Init /\ [][SpecSearchNext]_vars

SpecMatchNext ==
    \/ StoreNext(MatchForms)
    \/ \E filters \in MatchFilterSets : SearchKarty(filters)
    \/ Respond

SpecMatch == Init /\ [][SpecMatchNext]_vars

SpecReportNext ==
    \/ StoreNext(ReportForms)
    \/ Report
    \/ Respond

SpecReport == Init /\ [][SpecReportNext]_vars

\* the client of the coach board in the specifications of the board
Coach == "c1"

SpecCoachNext ==
    \/ StoreNext(CoachForms)
    \/ CoachLogin(Coach, Some(COACH_SHARED_PASSWORD))
    \/ CoachView(Coach)
    \/ Respond

SpecCoach == Init /\ [][SpecCoachNext]_vars

SpecInjuryNext ==
    \/ StoreNext(InjuryForms)
    \/ \E pid \in 1..MaxPlayerId, d \in {D1, D2, D3} : GetLatestInjuryDate(pid, d)
    \/ \E pid \in 1..MaxPlayerId, d \in {D1, D2, D3} : ElapsedAnnotation(pid, d)
    \/ Respond

SpecInjury == Init /\ [][SpecInjuryNext]_vars

\* the form with every input filled in (each with its own text) and both
\* boxes ticked
FullForm ==
    [ key \in DataKeys |->
        IF key = "player_id" THEN Some("1")
        ELSE IF key = "date" THEN Some(D2)
        ELSE IF key \in FlagKeys THEN Some("on")
        ELSE Some(key) ]

\* forms of the karte editor: full, with inputs emptied and a box not
\* ticked, with inputs missing, of another player, of no player, without date
KarteForms ==
    { FullForm,
      Without([FullForm EXCEPT !.s_content = Some(""), !.tr = Some(""),
                               !.injury_site = Some("")], {"report_flag"}),
      Without([FullForm EXCEPT !.injury_name = Some("")], {"diagnosis_flag", "a_content"}),
      [FullForm EXCEPT !.player_id = Some("2"), !.date = Some(D1)],
      [FullForm EXCEPT !.player_id = Some("")],
      [FullForm EXCEPT !.date = Some("")] }

\* forms of the editor of app_web.py: it has no inputs for the coach board
WebForms ==
    { Without([FullForm EXCEPT !.date = Some(D1), !.o_content = Some("")],
              {"report_flag", "injury_name", "participation_status", "return_est",
               "progress_note"}) }

SpecKarteNext ==
    \/ StoreNext(KarteForms)
    \/ \E id \in 1..MaxKarteId, form \in WebForms : UpdateKarteWeb(id, form)
    \/ \E id \in 1..MaxKarteId : GetKarte(id)
    \/ Respond

SpecKarte == Init /\ [][SpecKarteNext]_vars

\* searches of all karte and of the karte of one player
CascadeFilterSets ==
    { NoFilters, [NoFilters EXCEPT !.player_id = Some("1")] }

SpecCascadeNext ==
    \/ StoreNext(CoachForms)
    \/ \E filters \in CascadeFilterSets : SearchKarty(filters)
    \/ \E id \in 1..MaxKarteId : GetKarte(id)
    \/ CoachLogin(Coach, Some(COACH_SHARED_PASSWORD))
    \/ CoachView(Coach)
    \/ Respond

SpecCascade == Init /\ [][SpecCascadeNext]_vars

SpecAtomicNext ==
    \/ \E name \in PlayerNames : AddPlayer(name)
    \/ \E form \in CoachForms : CreateKarte(form)
    \/ \E id \in 1..MaxKarteId, form \in CoachForms : UpdateKarte(id, form)
    \/ \E id \in 1..MaxKarteId : DeleteKarte(id)
    \/ \E pid \in 1..MaxPlayerId : DeletePlayerConnect(pid)
    \/ DeletePlayerKarty
    \/ DeletePlayerMaster
    \/ DeletePlayerCommit
    \/ DeletePlayerFailure
    \/ Respond

SpecAtomic == Init /\ [][SpecAtomicNext]_vars

\* usernames and passwords of the login and user forms; a user is added
\* with the password "pw"
Usernames == {"admin", "bob"}

Passwords == {"password", "pw"}

CoachPasswords == {None, Some(COACH_SHARED_PASSWORD), Some("giants")}

UserIdTexts == {IdText[i] : i \in 1..MaxUserId}

SpecAuthNext ==
    \/ \E name \in PlayerNames : AddPlayer(name)
    \/ \E c \in Clients, username \in Usernames, password \in Passwords :
           Login(c, username, password)
    \/ \E c \in Clients : Logout(c)
    \/ \E c \in Clients, password \in CoachPasswords : CoachLogin(c, password)
    \/ \E c \in Clients : CoachView(c)
    \/ \E c \in Clients, un \in Usernames, ad \in {None, Some("on")} :
           UserMasterAdd(c, un, "pw", ad)
    \/ \E c \in Clients, uid \in UserIdTexts : UserMasterDelete(c, uid)
    \/ Respond

SpecAuth == Init /\ [][SpecAuthNext]_vars

\* The coach board of up to MaxReports players: the store after each
\* player was registered and given one reportable karte of some status.
StatusInputs ==
    {STATUS_IN, STATUS_RESTRICTION, STATUS_OUT, STATUS_GTD, "UNKNOWN", ""}

RankerNames == <<"A", "B", "C", "D", "E", "F">>

RankerForm(i, status) ==
    Reportable([MatchingForm EXCEPT !.player_id = Some(IdText[i]),
                                    !.participation_status = Some(status)])

InitRanker ==
    \E n \in 0..MaxReports :
        \E statuses \in [1..n -> StatusInputs] :
            /\ players = {[player_id |-> i, player_name |-> RankerNames[i]] : i \in 1..n}
            /\ karty = { KarteRow(i, SanitizeValues(prepare_karte_data(
                                        RankerForm(i, statuses[i])))) : i \in 1..n }
            /\ nextPlayerId = n + 1
            /\ nextKarteId = n + 1
            /\ users = {InitialAdmin}
            /\ nextUserId = 2
            /\ sessions = [c \in Clients |-> NewSession]
            /\ response = Idle

SpecRankerNext ==
    \/ CoachLogin(Coach, Some(COACH_SHARED_PASSWORD))
    \/ CoachView(Coach)
    \/ Respond

SpecRanker == InitRanker /\ [][SpecRankerNext]_vars

-----------------------------------------------------------------------------
(* Claims about search_karty *)

IsSearch == response.op = "search_karty"

Ids(rows) == {rows[i].karte_id : i \in DOMAIN rows}

\* the dates in calendar order
DateRank == (D1 :> 1) @@ (D2 :> 2) @@ (D3 :> 3)

\* a player id as the text of a filter

\* the filter set supplies a value for the key
Supplied(filters, key) == Get(filters, key) # None /\ Get(filters, key) # Some("")

IsSubstring(sub, s) ==
    \E i \in 0..(Len(s) - Len(sub)) : SubSeq(s, i + 1, i + Len(sub)) = sub

FieldContains(col, kw) == col # None /\ IsSubstring(Chars(kw), Chars(col[1]))

\* the keyword is a substring of one of the five free-text fields
ContainsKeyword(k, kw) ==
    \/ FieldContains(k.s_content, kw)
    \/ FieldContains(k.o_content, kw)
    \/ FieldContains(k.a_content, kw)
    \/ FieldContains(k.p_content, kw)
    \/ FieldContains(k.tr, kw)

\* the karte satisfies every filter the filter set supplies
SatisfiesAll(k, filters) ==
    /\ Supplied(filters, "player_id") =>
           k.player_id # None /\ IdText[k.player_id[1]] = filters["player_id"][1]
    /\ Supplied(filters, "start_date") =>
           DateRank[k.date] >= DateRank[filters["start_date"][1]]
    /\ Supplied(filters, "end_date") =>
           DateRank[k.date] <= DateRank[filters["end_date"][1]]
    /\ Supplied(filters, "time_loss_category") =>
           CASE filters["time_loss_category"][1] = "ALL" -> TRUE
             [] filters["time_loss_category"][1] = "TIME_LOSS_ONLY" ->
                    k.time_loss_category \in {Some(TL_LOSS), Some(TL_RTP)}
             [] OTHER -> k.time_loss_category = Some(filters["time_loss_category"][1])
    /\ Supplied(filters, "keyword") => ContainsKeyword(k, filters["keyword"][1])

\* the returned rows are exactly the karte satisfying all the filters, each
\* once, latest date first, and no smaller filter set returns fewer
ExactSearch ==
    LET filters == response.filters
        ret == response.ret
    IN  /\ Ids(ret) = {k.karte_id : k \in {r \in karty : SatisfiesAll(r, filters)}}
        /\ Len(ret) = Cardinality(Ids(ret))
        /\ \A i, j \in DOMAIN ret : i < j => DateRank[ret[i].date] >= DateRank[ret[j].date]
        /\ \A key \in FilterKeys :
               \A rows \in search_karty(Store, Without(filters, {key})) :
                   Ids(ret) \subseteq Ids(rows)

\* C1: for every store and filter set, search_karty returns exactly the
\* karte rows that satisfy all supplied filters (date bounds inclusive),
\* removing a filter never removes a row, and the rows are ordered by date
\* descending.
C1_SearchExact == IsSearch => ExactSearch

\* the keyword holds no character LIKE reads as a pattern
PlainKeyword(filters) ==
    Supplied(filters, "keyword") =>
        \A i \in DOMAIN Chars(filters["keyword"][1]) :
            Chars(filters["keyword"][1])[i] \notin {"%", "_", "\\"}

\* what holds of C1: the same, for keywords without LIKE pattern characters
SearchExactPlainKeyword == IsSearch /\ PlainKeyword(response.filters) => ExactSearch

\* C2: search_karty with time_loss_category = TIME_LOSS_ONLY and no other
\* filter returns exactly the rows of category TIME LOSS or RETURN TO PLAY.
C2_TimeLossOnly ==
    IsSearch /\ response.filters = [NoFilters EXCEPT !.time_loss_category = Some("TIME_LOSS_ONLY")]
    => /\ Ids(response.ret) =
            {k.karte_id : k \in {r \in karty : r.time_loss_category = Some(TL_LOSS)
                                           \/ r.time_loss_category = Some(TL_RTP)}}
       /\ \A i \in DOMAIN response.ret :
              response.ret[i].time_loss_category \in {Some(TL_LOSS), Some(TL_RTP)}

\* a TIME_LOSS_ONLY search returned a RETURN TO PLAY row and left out a row
\* of NEW/RE-INJURY, of NON TIME LOSS or of no category
C2_Witness ==
    /\ IsSearch
    /\ response.filters = [NoFilters EXCEPT !.time_loss_category = Some("TIME_LOSS_ONLY")]
    /\ \E i \in DOMAIN response.ret : response.ret[i].time_loss_category = Some(TL_RTP)
    /\ \E k \in karty : k.time_loss_category \in {Some(TL_NEW), Some(TL_NONE), None}

\* the value of the key imposes no constraint
NoConstraint(filters, key) ==
    \/ Get(filters, key) = None
    \/ Get(filters, key) = Some("")
    \/ key = "time_loss_category" /\ Get(filters, key) = Some("ALL")

\* C3: a filter that is absent, None or '' (for time_loss_category also
\* "ALL") imposes no constraint: the search returns what it returns with
\* that key omitted, whatever the other filters are.
C3_EmptyFilterIsNoFilter ==
    IsSearch =>
        \A key \in FilterKeys :
            NoConstraint(response.filters, key) =>
                response.ret \in search_karty(Store, Without(response.filters, {key}))

\* a search with '' for the keyword, "ALL" for the category and the main
\* value for the other keys returned a row and left another out
C3_Witness ==
    /\ IsSearch
    /\ response.filters \in { [MainFilters EXCEPT !.keyword = Some("")],
                              [MainFilters EXCEPT !.time_loss_category = Some("ALL")] }
    /\ response.ret # <<>>
    /\ Cardinality(karty) > Len(response.ret)

\* C4: a malformed filter value (a player_id that is no id) is treated as
\* no constraint: the search returns what it returns with the filter omitted.
C4_MalformedIsNoFilter ==
    IsSearch /\ Truthy(response.filters["player_id"])
             /\ ~IsIntLiteral(response.filters["player_id"][1])
    => response.ret \in search_karty(Store, Without(response.filters, {"player_id"}))

\* C5: with a keyword, a row is returned if and only if the keyword is a
\* substring of one of the five free-text fields and the row satisfies
\* every other supplied filter.
C5_KeywordIsSubstring ==
    IsSearch /\ Truthy(response.filters["keyword"])
    => \A rows \in search_karty(Store, Without(response.filters, {"keyword"})) :
           Ids(response.ret) =
               { k.karte_id : k \in { r \in karty :
                     /\ r.karte_id \in Ids(rows)
                     /\ ContainsKeyword(r, response.filters["keyword"][1]) } }

\* what holds of C5: the same, for keywords without LIKE pattern characters
PlainKeywordIsSubstring ==
    IsSearch /\ PlainKeyword(response.filters) => C5_KeywordIsSubstring

-----------------------------------------------------------------------------
(* Claims about the injury report *)

IsReport == response.op = "report"

RECURSIVE SumSeq(_)
SumSeq(ns) == IF ns = <<>> THEN 0 ELSE ns[1] + SumSeq(Tail(ns))

\* the karte of the report's categories that name a site
SitedKarty ==
    { k \in karty : /\ k.time_loss_category \in {Some(TL_LOSS), Some(TL_NEW), Some(TL_RTP)}
                    /\ k.injury_site # None
                    /\ k.injury_site # Some("") }

\* C6: the per-site counts sum to the number of karte of category TIME
\* LOSS, NEW/RE-INJURY or RETURN TO PLAY with a non-null, non-empty site;
\* each is counted once under its own site, and a karte with a null or
\* empty site is counted in no bucket.
C6_SiteCounts ==
    IsReport =>
        /\ SumSeq(response.chart_values) = Cardinality(SitedKarty)
        /\ \A i, j \in DOMAIN response.chart_labels :
               response.chart_labels[i] = response.chart_labels[j] => i = j
        /\ \A i \in DOMAIN response.chart_labels :
               /\ response.chart_labels[i] \notin {None, Some("")}
               /\ response.chart_values[i] =
                      Cardinality({k \in SitedKarty : k.injury_site = response.chart_labels[i]})
        /\ \A k \in SitedKarty :
               \E i \in DOMAIN response.chart_labels : response.chart_labels[i] = k.injury_site

\* a report summed two rows of the query into one site
C6_Witness ==
    /\ IsReport
    /\ Len(response.report_data) = 2
    /\ response.chart_values = <<2>>

\* a report left a karte without site out of every bucket
C6_WitnessNoSite ==
    /\ IsReport
    /\ response.chart_values = <<1>>
    /\ \E k \in karty : k.time_loss_category = Some(TL_LOSS) /\ k.injury_site = None

\* C7: grouped_data maps each category to the list of its rows: every row
\* of the report query is in exactly one list, the one of its category, and
\* each list keeps the order of the query.
C7_GroupedData ==
    IsReport =>
        LET data == response.report_data
            grouped == response.grouped_data
        IN  /\ DOMAIN grouped = {data[i].time_loss_category : i \in DOMAIN data}
            /\ \A cat \in DOMAIN grouped :
                   grouped[cat] = SelectSeq(data, LAMBDA item : item.time_loss_category = cat)
            /\ \A i \in DOMAIN data :
                   \A cat \in DOMAIN grouped :
                       Cardinality({n \in DOMAIN grouped[cat] : grouped[cat][n] = data[i]})
                           = IF cat = data[i].time_loss_category THEN 1 ELSE 0

\* a report grouped two rows of the query under one category
C7_Witness ==
    /\ IsReport
    /\ \E cat \in DOMAIN response.grouped_data : Len(response.grouped_data[cat]) = 2

-----------------------------------------------------------------------------
(* Claims about the coach board *)

IsCoachView == response.op = "coach_view"

\* the karte a row of the board shows
KarteOf(row) == CHOOSE k \in karty : k.karte_id = row.karte_id

\* the reportable karte of a player
ReportableOf(pid) == {k \in karty : k.player_id = Some(pid) /\ k.report_flag = 1}

\* k is the latest of the set: greatest date, then greatest id
IsLatest(k, S) ==
    /\ k \in S
    /\ \A o \in S :
           \/ DateRank[o.date] < DateRank[k.date]
           \/ (o.date = k.date /\ o.karte_id <= k.karte_id)

\* C8: after any creates, updates and deletes the coach board holds, for
\* every player with a karte of report_flag = 1, exactly one row, the
\* player's reportable karte of greatest date and then greatest id; players
\* without reportable karte and karte of report_flag = 0 never appear.
C8_CoachBoard ==
    IsCoachView =>
        LET rows == response.reports
        IN  /\ \A i \in DOMAIN rows :
                   /\ \E k \in karty : k.karte_id = rows[i].karte_id
                   /\ KarteOf(rows[i]).report_flag = 1
            /\ \A p \in players :
                   LET shown == {i \in DOMAIN rows :
                                   KarteOf(rows[i]).player_id = Some(p.player_id)}
                   IN  IF ReportableOf(p.player_id) = {}
                       THEN shown = {}
                       ELSE /\ Cardinality(shown) = 1
                            /\ \A i \in shown :
                                   IsLatest(KarteOf(rows[i]), ReportableOf(p.player_id))

\* the board shows the later of two reportable karte of one player and of
\* one date
C8_Witness ==
    /\ IsCoachView
    /\ Len(response.reports) = 1
    /\ \E k1, k2 \in karty :
           /\ k1.karte_id < k2.karte_id
           /\ k1.player_id = k2.player_id /\ k1.date = k2.date
           /\ k1.report_flag = 1 /\ k2.report_flag = 1
           /\ response.reports[1].karte_id = k2.karte_id

\* the board shows one player's reportable karte next to another player
\* whose only karte is not reportable
C8_WitnessHidden ==
    /\ IsCoachView
    /\ Len(response.reports) = 1
    /\ \E k \in karty :
           /\ k.report_flag = 0
           /\ k.player_id # None
           /\ k.player_id # KarteOf(response.reports[1]).player_id

\* the place of a participation status on the board
StatusRank(status) ==
    CASE status = Some(STATUS_OUT) -> 1
      [] status = Some(STATUS_GTD) -> 2
      [] status = Some(STATUS_RESTRICTION) -> 3
      [] status = Some(STATUS_IN) -> 4
      [] OTHER -> 5

Statuses(rows) == [i \in DOMAIN rows |-> rows[i].participation_status]

\* the place of a row in a list
Place(rows, row) == CHOOSE i \in DOMAIN rows : rows[i] = row

\* the statuses of the example
ExampleStatuses ==
    <<Some(STATUS_IN), Some(STATUS_OUT), Some(STATUS_RESTRICTION),
      Some(STATUS_GTD), Some(STATUS_IN)>>

\* C9: coach_view orders the rows OUT, GTD, RESTRICTION, IN, then any other
\* or missing status, rows of one priority in their input order; statuses
\* [IN, OUT, RESTRICTION, GTD, IN] come out [OUT, GTD, RESTRICTION, IN, IN]
\* with the two IN rows in their original relative order.
C9_RankerOrder ==
    IsCoachView =>
        LET input == get_coach_reports(Store)
            out == response.reports
        IN  /\ Len(out) = Len(input)
            /\ \A i \in DOMAIN input : \E j \in DOMAIN out : out[j] = input[i]
            /\ \A i, j \in DOMAIN out :
                   i < j => StatusRank(out[i].participation_status)
                               <= StatusRank(out[j].participation_status)
            /\ \A i, j \in DOMAIN input :
                   /\ i < j
                   /\ StatusRank(input[i].participation_status)
                         = StatusRank(input[j].participation_status)
                   => Place(out, input[i]) < Place(out, input[j])
            /\ Statuses(input) = ExampleStatuses =>
                   /\ Statuses(out) = <<Some(STATUS_OUT), Some(STATUS_GTD),
                                        Some(STATUS_RESTRICTION), Some(STATUS_IN),
                                        Some(STATUS_IN)>>
                   /\ out[4] = input[1]
                   /\ out[5] = input[5]

\* coach_view has ordered the board of the example
C9_Witness ==
    /\ IsCoachView
    /\ Statuses(get_coach_reports(Store)) = ExampleStatuses
    /\ Len(response.reports) = 5

\* the injury entries of the player up to the displayed date
InjuriesUpTo(pid, date) ==
    { k \in karty : /\ k.player_id = Some(pid)
                    /\ k.time_loss_category = Some("NEW/RE-INJURY")
                    /\ DateRank[k.date] <= DateRank[date] }

\* C10: get_latest_injury_date returns the greatest date among the
\* player's karte of category NEW/RE-INJURY dated on or before the
\* displayed date; without such an entry it returns nothing and the
\* elapsed-days output is "-".
C10_LatestInjuryDate ==
    /\ response.op = "get_latest_injury_date" =>
           LET found == InjuriesUpTo(response.player_id, response.current_date)
           IN  IF found = {}
               THEN response.ret = None
               ELSE /\ response.ret # None
                    /\ \E k \in found : k.date = response.ret[1]
                    /\ \A k \in found : DateRank[k.date] <= DateRank[response.ret[1]]
    /\ response.op = "elapsed_days" =>
           (response.ret.dash <=> InjuriesUpTo(response.player_id, response.current_date) = {})

\* a lookup returned the date of a same-day injury entry while the store
\* holds a karte the lookup must pass over
C10_Witness ==
    /\ response.op = "get_latest_injury_date"
    /\ response.ret = Some(response.current_date)
    /\ \E k \in karty :
           \/ k.player_id # Some(response.player_id)
           \/ k.time_loss_category # Some(TL_NEW)
           \/ DateRank[k.date] > DateRank[response.current_date]

\* the annotation of a player without an injury entry up to the date is "-"
C10_WitnessDash ==
    /\ response.op = "elapsed_days"
    /\ response.ret.dash
    /\ \E k \in karty : k.player_id = Some(response.player_id)

-----------------------------------------------------------------------------
(* Claims about the elapsed-days annotation *)

\* the calendar days from 2024-01-01 to each date of the model
DaysFromD1 == (D1 :> 0) @@ (D2 :> 14) @@ (D3 :> 31)

\* the latest injury entry of the player up to the displayed date
LatestInjury(pid, date) ==
    CHOOSE k \in InjuriesUpTo(pid, date) :
        \A o \in InjuriesUpTo(pid, date) : DateRank[o.date] <= DateRank[k.date]

-----------------------------------------------------------------------------
(* Claims about writing a karte *)

\* what the store holds, and a fetch returns, for a value of the dict
\* handed to create_karte / update_karte
Persisted(key, value) ==
    IF key \in FlagKeys THEN value
    ELSE IF value = Some("") THEN None
    ELSE IF key = "player_id" /\ value # None
    THEN Some(CASE value[1] = "1" -> 1 [] value[1] = "2" -> 2 [] value[1] = "3" -> 3)
    ELSE value

\* the fetched or stored value of a column (the date column is NOT NULL)
Fetched(row, key) == IF key = "date" THEN Some(row.date) ELSE row[key]

\* C12: a karte fetched by id right after its creation has every submitted
\* field with the submitted value, fields submitted as '' being null.
C12_CreateGetRoundTrip ==
    (response.op = "create_karte" /\ response.outcome = "ok") =>
        LET data == prepare_karte_data(response.form)
            fetched == get_karte(Store, response.karte_id)
        IN  /\ fetched # None
            /\ \A key \in DOMAIN data :
                   /\ key \in DOMAIN fetched[1]
                   /\ Fetched(fetched[1], key) = Persisted(key, data[key])

\* a karte was created from a form with filled, emptied and missing inputs
C12_Witness ==
    /\ response.op = "create_karte" /\ response.outcome = "ok"
    /\ Get(response.form, "injury_name") = Some("")
    /\ "a_content" \notin DOMAIN response.form
    /\ get_karte(Store, response.karte_id)[1].o_content = Some("o_content")
    /\ get_karte(Store, response.karte_id)[1].injury_name = None

\* the dict the handler handed to the store for the form of the response
SubmittedData ==
    IF response.op = "update_karte_web"
    THEN prepare_karte_data_web(response.form)
    ELSE prepare_karte_data(response.form)

\* C13: no stored karte field holds the empty string: a field submitted as
\* '' is persisted as null by an update as by a create, and a non-empty
\* value (a 0 flag included) is persisted unchanged.
C13_EmptyIsNull ==
    /\ \A k \in karty : \A column \in DOMAIN k \ ({"karte_id", "player_id"} \cup FlagKeys) :
           Fetched(k, column) # Some("")
    /\ (response.op \in {"create_karte", "update_karte", "update_karte_web"}
           /\ response.outcome = "ok") =>
           \E k \in karty :
               /\ k.karte_id = response.karte_id
               /\ \A key \in DOMAIN SubmittedData :
                      Fetched(k, key) = Persisted(key, SubmittedData[key])

\* an update wrote a form with emptied inputs and an unticked box
C13_Witness ==
    /\ response.op = "update_karte" /\ response.outcome = "ok"
    /\ Get(response.form, "s_content") = Some("")
    /\ Get(response.form, "report_flag") = None
    /\ \E k \in karty : /\ k.karte_id = response.karte_id
                         /\ k.s_content = None
                         /\ k.report_flag = 0
                         /\ k.o_content = Some("o_content")

-----------------------------------------------------------------------------
(* Claims about deleting a player *)

\* the player ids given out that are no longer (or never were) a player
GonePlayerIds == (1..(nextPlayerId - 1)) \ {p.player_id : p \in players}

\* the player_id of the karte with the id, None when there is no such karte
PlayerOfKarte(karte_id) ==
    IF \E k \in karty : k.karte_id = karte_id
    THEN (CHOOSE k \in karty : k.karte_id = karte_id).player_id
    ELSE None

\* the player ids the rows of the response refer to
ReferencedPlayers ==
    IF response.op \in {"search_karty", "coach_view"}
    THEN LET rows == IF response.op = "search_karty" THEN response.ret ELSE response.reports
         IN  {PlayerOfKarte(rows[i].karte_id) : i \in DOMAIN rows}
    ELSE IF response.op = "get_karte" /\ response.ret # None
    THEN {response.ret[1].player_id}
    ELSE {}

\* the step of delete_player(p) removes p and the karte of p and nothing else
DeletePlayerStep ==
    response'.op = "delete_player" =>
        /\ players' = {q \in players : q.player_id # response'.player_id}
        /\ karty' = {k \in karty : k.player_id # Some(response'.player_id)}
        /\ \A q \in players' : q.player_id # response'.player_id
        /\ \A k \in karty' : k.player_id # Some(response'.player_id)

\* no karte and no row of a search, a fetch by id or the coach board refers
\* to a player that is gone
NoRowOfGonePlayer ==
    /\ \A k \in karty : k.player_id = None \/ k.player_id[1] \notin GonePlayerIds
    /\ \A pid \in ReferencedPlayers : pid = None \/ pid[1] \notin GonePlayerIds

\* C14: delete_player(p) removes player p and every karte of p, leaves the
\* other players and their karte as they were, and no later search, fetch
\* by id or coach board returns a row of player p.
C14_DeletePlayerCascade == [][DeletePlayerStep]_vars /\ []NoRowOfGonePlayer

\* a player with a karte was deleted while the karte of another player stays
C14_Witness ==
    /\ response.op = "delete_player"
    /\ response.rowcount > 0
    /\ \E k \in karty : k.player_id # None /\ k.player_id # Some(response.player_id)

\* every karte of a player is of a player of PLAYER_MASTER
NoOrphanKarte ==
    \A k \in karty : k.player_id = None \/ \E p \in players : p.player_id = k.player_id[1]

\* while delete_player(p) is in flight the store is as it was, until one
\* step removes both p and the karte of p; a failure removes nothing
DeletePlayerAtomicStep ==
    /\ response.op = "delete_player_tx" =>
           \/ players' = players /\ karty' = karty
           \/ /\ response'.op = "delete_player"
              /\ players' = {p \in players : p.player_id # response.player_id}
              /\ karty' = {k \in karty : k.player_id # Some(response.player_id)}
    /\ response'.op = "delete_player_failed" => (players' = players /\ karty' = karty)

\* C15: player deletion is atomic: a failure before the commit, also one
\* between the two statements, commits neither deletion, and no committed
\* state has a karte of a deleted player, or a player deleted without its
\* karte or the karte without the player.
C15_DeletePlayerAtomic == [][DeletePlayerAtomicStep]_vars /\ []NoOrphanKarte

\* delete_player failed between its two statements: the player and the
\* karte of the player are still in the store
C15_Witness ==
    /\ response.op = "delete_player_failed"
    /\ response.at = "karte_deleted"
    /\ \E p \in players : p.player_id = response.player_id
    /\ \E k \in karty : k.player_id = Some(response.player_id)

\* C16: a failure of the store never leaves a store operation as an
\* error: a write returns a boolean failure signal to its caller, so no
\* create or update of a karte ends with the error raised through the
\* handler.
C16_FailuresAreSignalled ==
    response.op \in {"create_karte", "update_karte", "update_karte_web"}
        => response.outcome # "raised"

\* a request for a taken name is answered FALSE and leaves the tables as
\* they were; a request for a free name is answered TRUE
DuplicateStep ==
    /\ (response = Idle /\ response'.op = "add_player") =>
           IF \E p \in players : p.player_name = response'.player_name
           THEN response'.ret = FALSE /\ players' = players /\ karty' = karty
           ELSE response'.ret = TRUE
    /\ (response = Idle /\ response'.op = "add_user") =>
           IF \E u \in users : u.username = response'.username
           THEN response'.ret = FALSE /\ users' = users
           ELSE response'.ret = TRUE

UniqueNames ==
    /\ \A p, q \in players : p.player_name = q.player_name => p = q
    /\ \A u, v \in users : u.username = v.username => u = v

\* C17: add_player and add_user with a name that exists return false, no
\* error, and leave the store unchanged; player names and usernames stay
\* unique.
C17_DuplicateNotCreated == [][DuplicateStep]_vars /\ []UniqueNames

\* add_user has just refused a taken username, and before it add_player
\* refused a taken name (its value of the sequence is gone)
C17_Witness ==
    /\ response.op = "add_user"
    /\ response.ret = FALSE
    /\ \E u \in users : u.username = response.username
    /\ players # {}
    /\ nextPlayerId > Cardinality(players) + 1

\* an update through one of the handlers ops that succeeded: the karte is
\* now the row of the values derived from the form (an input the form
\* lacks is NULL, a box not ticked 0), under its id, and every other
\* karte is as it was
FullRowReplace(ops) ==
    (response = Idle /\ response'.op \in ops /\ response'.outcome = "ok") =>
        karty' = {k \in karty : k.karte_id # response'.karte_id}
                   \cup {KarteRow(response'.karte_id,
                                  SanitizeValues(prepare_karte_data(response'.form)))}

\* edit_karte of app.py replaces the whole row
UpdateKarteReplacesRow == [][FullRowReplace({"update_karte"})]_vars

\* C18: a karte update is a full-row replace, never a partial merge:
\* every data field of the karte is the value derived from the form, none
\* keeps its value of before the update because the form lacks it, the id
\* and the other karte are unchanged.
C18_FullRowReplace == [][FullRowReplace({"update_karte", "update_karte_web"})]_vars

\* the session of client c is of a logged-in trainer or coach-authenticated
Authorized(c) == is_authenticated(c) \/ sessions[c].coach_authenticated

\* coach_view answers with the board only to an authorized session, and
\* sends every other session to coach_login
BoardOnlyIfAuthorized ==
    /\ response.op = "coach_view" => Authorized(response.client)
    /\ (response.op = "redirect" /\ response.from = "coach_view") =>
           (~Authorized(response.client) /\ response.to = "coach_login")

\* coach_authenticated is set by a coach_login with the shared password
\* only; a session becomes authorized by a successful login or coach_login
\* only; a logout leaves the session neither logged in nor
\* coach-authenticated
SessionStep ==
    /\ \A c \in Clients :
          (~sessions[c].coach_authenticated /\ sessions'[c].coach_authenticated) =>
              /\ response'.op = "coach_login"
              /\ response'.client = c
              /\ response'.password = Some(COACH_SHARED_PASSWORD)
    /\ \A c \in Clients :
          (~Authorized(c) /\ Authorized(c)') =>
              /\ response'.op \in {"login", "coach_login"}
              /\ response'.client = c
              /\ response'.ret = TRUE
    /\ \A c \in Clients :
          (response = Idle /\ response'.op = "logout" /\ response'.client = c) =>
              /\ ~Authorized(c)'
              /\ sessions'[c] = NewSession

\* C19: coach_view shows the board only to a session of a logged-in
\* trainer or with coach_authenticated set; coach_authenticated is set
\* only by a coach_login POST with the shared password; after logout the
\* session is neither, so coach_view redirects to coach_login until a new
\* successful login.
C19_CoachAccess == []BoardOnlyIfAuthorized /\ [][SessionStep]_vars

\* a client that was logged in and coach-authenticated has logged out,
\* while another client is still coach-authenticated
C19_Witness ==
    /\ response.op = "logout"
    /\ response.session.user_id # None
    /\ response.session.coach_authenticated
    /\ sessions[response.client] = NewSession
    /\ \E c \in Clients : sessions[c].coach_authenticated

\* coach_view has sent a client to coach_login whose session is as left by
\* a logout, while another client is logged in
C19_WitnessRedirect ==
    /\ response.op = "redirect"
    /\ response.from = "coach_view"
    /\ sessions[response.client] = NewSession
    /\ \E c \in Clients : is_authenticated(c)

Admins == {u \in users : u.is_admin = 1}

AdminExists == Admins # {}

\* USER_MASTER changes only by an add or delete request of a client whose
\* user is, at the request, a row of USER_MASTER with is_admin = 1; the
\* request of an admin to delete the own row changes nothing
UserMasterStep ==
    /\ users' # users =>
          /\ response'.op \in {"add_user", "delete_user"}
          /\ current_user(response'.client) # None
          /\ current_user(response'.client)[1].is_admin = 1
    /\ (/\ response = Idle
        /\ response'.op = "delete_user"
        /\ IntValue(response'.user_id) = current_user(response'.client)[1].user_id)
          => (users' = users /\ response'.ret = FALSE)

\* C20: the user table changes only on requests of a logged-in admin, an
\* admin's request to delete the own account deletes nothing, and so, with
\* requests served one at a time, at least one admin user always exists.
C20_AdminRemains == [][UserMasterStep]_vars /\ []AdminExists

\* the only admin has asked to delete the own account, with another user
\* registered: the request is refused
C20_Witness ==
    /\ response.op = "delete_user"
    /\ response.ret = FALSE
    /\ Cardinality(Admins) = 1
    /\ Cardinality(users) > 1
    /\ \E u \in Admins : u.user_id = IntValue(response.user_id)

====
